---- MODULE Spec2Model ----
(***************************************************************************)
(* A model of package ordered_sync_map (src/src/mymap/map.go): a map       *)
(* index mp from keys to list elements, a doubly-linked list dll holding   *)
(* one mapElement{key, value} per entry, and one sync.RWMutex mu.          *)
(*                                                                         *)
(* Spec     : one caller, every method call one atomic step (the methods   *)
(*            run to completion under the lock); the result of the call    *)
(*            is kept in last.                                             *)
(* SpecThreads: MaxThreads goroutines share the map; every method takes    *)
(*            mu, runs its statements one step at a time and releases mu.  *)
(* SpecDisjoint: as SpecThreads, every goroutine calling Put, Delete and   *)
(*            Get on a key of its own.                                     *)
(* SpecReentrant: as SpecThreads, and the callback of a traversal may call *)
(*            a method of the same map.                                    *)
(* SpecFair : SpecThreads under a fair scheduler and a fair mutex.         *)
(***************************************************************************)
EXTENDS Integers, Sequences, FiniteSets, TLC

\* The single caller of Spec uses the first MaxKeys keys of KeyNames.
MaxKeys == 2

\* Goroutines that share the map in SpecThreads.
MaxThreads == 2

KeyNames == <<"a", "b", "c", "d">>
Keys == {KeyNames[i] : i \in 1..MaxKeys}
\* The map never inspects a value: the caller stores the three values of
\* the worked example, the goroutines two of them.
Vals == {1, 2, 3}

Threads == 1..MaxThreads
NoThread == 0
ThreadKeys == {KeyNames[1], KeyNames[2]}
ThreadVals == {1, 2}
ReadOps == {"Get", "UnorderedRange", "OrderedRange", "Length"}
WriteOps == {"Put", "Delete", "GetOrPut", "GetAndDelete"}

\* Identities of *list.Element; at most one live element per key.
Elements == 1..(IF MaxKeys > MaxThreads THEN MaxKeys ELSE MaxThreads)
NoElement == 0

VARIABLES
    mp,        \* m.mp : key -> *list.Element (a function on the present keys)
    dll,       \* m.dll: the elements of the list, front first
    Value,     \* e.Value of every element (nil for an element not allocated)
    last,      \* the latest call of the single caller and what it returned
    puts,      \* history: keys of the Put calls so far, in call order
    onlyPuts,  \* history: every write so far was a Put of a key not Put before
    lastPut,   \* history: v when the latest write call on k was Put(k, v), else 0
    inserted,  \* history: k was passed to Put or GetOrPut at least once
    undeleted, \* history: k was inserted after the last Delete(k) that returned true
    unremoved, \* history: as undeleted, a GetAndDelete(k) that returned true counting too
    example,   \* history: how many calls of ExampleTrace the writes so far are (-1: not it)
    fresh,     \* history: the keys inserted and not removed since, latest insertion first
    written,   \* history: the value the latest write under the lock left for k (0: none)
    firsts,    \* history: the calls that pushed an element for k since k was last removed
    mu,        \* m.mu : the sync.RWMutex
    th         \* every goroutine's call in progress: where it is and its locals

mapVars  == <<mp, dll, Value>>
histVars == <<puts, onlyPuts, lastPut, inserted, undeleted, unremoved, example, fresh>>
seqVars  == <<last, puts, onlyPuts, lastPut, inserted, undeleted, unremoved, example, fresh>>
logVars  == <<written, firsts>>
thVars   == <<written, firsts, mu, th>>
vars     == <<mp, dll, Value, last, puts, onlyPuts, lastPut, inserted, undeleted, unremoved,
             example, fresh, written, firsts, mu, th>>

----------------------------------------------------------------------------
\* Go interface{} values, as records of one shape so that any two compare.
nil == [type |-> "nil", key |-> "", value |-> 0]
IntOf(v) == [type |-> "int", key |-> "", value |-> v]
mapElement(k, v) == [type |-> "mapElement", key |-> k, value |-> v]

\* me := e.Value.(mapElement); me.value
ValueOf(me) == IntOf(me.value)

----------------------------------------------------------------------------
\* container/list, on the sequence of elements (front first). Each operator
\* that follows a faulty variant of it (PushBack, RemoveNothing, Front, ...)
\* is the one the model uses; the variant is what a slip in the code would
\* compute, and the properties below are tested to tell the two apart.
PushBack(l, e) == l \o <<e>>
PushFront(l, e) == <<e>> \o l

RemoveNothing(l, e) == l
Remove(l, e) == SelectSeq(l, LAMBDA x : x # e)

Front(l) == IF Len(l) = 0 THEN NoElement ELSE l[1]
Back(l) == IF Len(l) = 0 THEN NoElement ELSE l[Len(l)]

IndexOf(l, e) == CHOOSE i \in 1..Len(l) : l[i] = e
Prev(l, e) == LET i == IndexOf(l, e) IN IF i = 1 THEN NoElement ELSE l[i - 1]

\* The element a PushFront allocates: one that is neither in the list nor
\* in the index nor holds a value.
NewElement ==
    CHOOSE e \in Elements :
        /\ Value[e] = nil
        /\ \A i \in 1..Len(dll) : dll[i] # e
        /\ \A k \in DOMAIN mp : mp[k] # e
        /\ \A f \in Elements :
              (Value[f] = nil /\ (\A i \in 1..Len(dll) : dll[i] # f)
                 /\ (\A k \in DOMAIN mp : mp[k] # f)) => e <= f

\* delete(m.mp, key)
DeleteKeyNothing(m, k) == m
DeleteKey(m, k) == [x \in DOMAIN m \ {k} |-> m[x]]

\* e, ok := m.mp[key]
ExistsNever(m, k) == FALSE
Exists(m, k) == k \in DOMAIN m

----------------------------------------------------------------------------
\* What the methods compute, on the state they read under the lock.

\* Get: v, ok := m.mp[key]; nil, false when absent, else me.value, ok
GetIn(m, val, k) ==
    IF ~Exists(m, k) THEN <<nil, FALSE>>
    ELSE <<ValueOf(val[m[k]]), TRUE>>

GetResult(k) == GetIn(mp, Value, k)

\* Length: m.dll.Len()
Length == Len(dll)

\* OrderedRange: cur := m.dll.Back(); for cur != nil { f(me.key, me.value); cur = cur.Prev() }
RECURSIVE Walk(_, _, _)
Walk(l, val, cur) ==
    IF cur = NoElement THEN <<>>
    ELSE <<(<<val[cur].key, ValueOf(val[cur])>>)>> \o Walk(l, val, Prev(l, cur))

OrderedIn(l, val) == Walk(l, val, Back(l))
OrderedVisits == OrderedIn(dll, Value)

\* UnorderedRange: for k, v := range m.mp { f(k, v.Value.(mapElement).value) },
\* in any order the runtime picks.
Orders(S) == {p \in [1..Cardinality(S) -> S] : \A i, j \in DOMAIN p : p[i] = p[j] => i = j}
UnorderedVisits(p) == [i \in DOMAIN p |-> <<p[i], ValueOf(Value[mp[p[i]]])>>]

\* GetAndDelete: the first result, return e.Value
RemovedValue(e) == Value[e]

\* GetAndDelete on an absent key: return nil, false
AbsentDeleted == <<nil, TRUE>>
Absent == <<nil, FALSE>>

\* GetOrPut: the first result, return value
GetOrPutOld(e, v) == ValueOf(Value[e])
GetOrPutValue(e, v) == IntOf(v)

\* Put / GetOrPut on a present key: e.Value = mapElement{key: key, value: val}
StoreKeep(val, e, k, v) == val
Store(val, e, k, v) == [val EXCEPT ![e] = mapElement(k, v)]

----------------------------------------------------------------------------
\* The record of a call: the method, its arguments and its results.
Call(op, k, v, ret, ok, n, visited) ==
    [op |-> op, key |-> k, val |-> v, ret |-> ret, ok |-> ok, n |-> n, visited |-> visited]

\* The write calls of the worked example, from the empty map.
ExampleTrace ==
    << <<"Put", "a", 1>>, <<"Put", "b", 2>>, <<"Put", "a", 3>>, <<"GetAndDelete", "b", 0>> >>

\* The history after a write call on k.
Wrote(op, k, v, ok) ==
    /\ example' = IF example >= 0 /\ example < Len(ExampleTrace)
                     /\ ExampleTrace[example + 1] = <<op, k, v>>
                  THEN example + 1 ELSE -1
    /\ puts' = IF op = "Put" /\ onlyPuts /\ (\A i \in 1..Len(puts) : puts[i] # k)
               THEN Append(puts, k) ELSE <<>>
    /\ onlyPuts' = (op = "Put" /\ onlyPuts /\ (\A i \in 1..Len(puts) : puts[i] # k))
    /\ lastPut' = [lastPut EXCEPT ![k] = IF op = "Put" THEN v ELSE 0]
    /\ inserted' = [inserted EXCEPT ![k] = @ \/ op \in {"Put", "GetOrPut"}]
    /\ undeleted' = [undeleted EXCEPT ![k] =
                        IF op \in {"Put", "GetOrPut"} THEN TRUE
                        ELSE IF op = "Delete" /\ ok THEN FALSE ELSE @]
    /\ unremoved' = [unremoved EXCEPT ![k] =
                        IF op \in {"Put", "GetOrPut"} THEN TRUE
                        ELSE IF op \in {"Delete", "GetAndDelete"} /\ ok THEN FALSE ELSE @]
    /\ fresh' = IF op \in {"Put", "GetOrPut"}
                THEN (IF unremoved[k] THEN fresh ELSE <<k>> \o fresh)
                ELSE IF ok THEN SelectSeq(fresh, LAMBDA x : x # k) ELSE fresh

\* The traversal a callback was called from, while the callback is in a
\* method of the map; NoFrame when the goroutine is in no callback.
NoFrame == [op |-> "", cur |-> NoElement, todo |-> {}, snap |-> {}, out |-> <<>>]

\* A goroutine that is in no method of the map.
Idle == [pc |-> "idle", op |-> "", key |-> "", e |-> NoElement, cur |-> NoElement,
         todo |-> {}, ret |-> nil, ok |-> FALSE, snap |-> {}, out |-> <<>>,
         outer |-> NoFrame]

----------------------------------------------------------------------------
\* New
Init ==
    /\ mp = <<>>
    /\ dll = <<>>
    /\ Value = [e \in Elements |-> nil]
    /\ last = Call("New", "", 0, nil, FALSE, 0, <<>>)
    /\ puts = <<>>
    /\ onlyPuts = TRUE
    /\ lastPut = [k \in Keys |-> 0]
    /\ inserted = [k \in Keys |-> FALSE]
    /\ undeleted = [k \in Keys |-> FALSE]
    /\ unremoved = [k \in Keys |-> FALSE]
    /\ example = 0
    /\ fresh = <<>>
    /\ written = [k \in Keys |-> 0]
    /\ firsts = [k \in Keys |-> 0]
    /\ mu = [w |-> NoThread, held |-> FALSE, readers |-> 0, blocked |-> {}]
    /\ th = [t \in Threads |-> Idle]

\* A Get that moves the key it finds to the front of the list, as a map
\* ordered by access would: not what Get does.
GetTouch(k) ==
    /\ last' = Call("Get", k, 0, GetResult(k)[1], GetResult(k)[2], 0, <<>>)
    /\ dll' = IF Exists(mp, k) THEN PushFront(Remove(dll, mp[k]), mp[k]) ELSE dll
    /\ UNCHANGED <<mp, Value, histVars, thVars>>

Get(k) ==
    /\ last' = Call("Get", k, 0, GetResult(k)[1], GetResult(k)[2], 0, <<>>)
    /\ UNCHANGED <<mapVars, histVars, thVars>>

Put(k, v) ==
    /\ IF ~Exists(mp, k)
       THEN LET e == NewElement IN
            /\ dll' = PushFront(dll, e)
            /\ Value' = [Value EXCEPT ![e] = mapElement(k, v)]
            /\ mp' = (k :> e) @@ mp
       ELSE /\ Value' = Store(Value, mp[k], k, v)
            /\ UNCHANGED <<mp, dll>>
    /\ last' = Call("Put", k, v, nil, FALSE, 0, <<>>)
    /\ Wrote("Put", k, v, FALSE)
    /\ UNCHANGED thVars

Delete(k) ==
    /\ IF ~Exists(mp, k)
       THEN /\ last' = Call("Delete", k, 0, nil, FALSE, 0, <<>>)
            /\ UNCHANGED mapVars
       ELSE LET e == mp[k] IN
            /\ dll' = Remove(dll, e)
            /\ mp' = DeleteKey(mp, k)
            /\ Value' = [Value EXCEPT ![e] = nil]
            /\ last' = Call("Delete", k, 0, nil, TRUE, 0, <<>>)
    /\ Wrote("Delete", k, 0, last'.ok)
    /\ UNCHANGED thVars

UnorderedRange ==
    /\ \E p \in Orders(DOMAIN mp) :
          last' = Call("UnorderedRange", "", 0, nil, FALSE, 0, UnorderedVisits(p))
    /\ UNCHANGED <<mapVars, histVars, thVars>>

OrderedRange ==
    /\ last' = Call("OrderedRange", "", 0, nil, FALSE, 0, OrderedVisits)
    /\ UNCHANGED <<mapVars, histVars, thVars>>

LengthCall ==
    /\ last' = Call("Length", "", 0, nil, FALSE, Length, <<>>)
    /\ UNCHANGED <<mapVars, histVars, thVars>>

GetOrPut(k, v) ==
    /\ IF Exists(mp, k)
       THEN /\ Value' = Store(Value, mp[k], k, v)
            /\ UNCHANGED <<mp, dll>>
            /\ last' = Call("GetOrPut", k, v, GetOrPutValue(mp[k], v), TRUE, 0, <<>>)
       ELSE LET e == NewElement IN
            /\ dll' = PushFront(dll, e)
            /\ Value' = [Value EXCEPT ![e] = mapElement(k, v)]
            /\ mp' = (k :> e) @@ mp
            /\ last' = Call("GetOrPut", k, v, IntOf(v), FALSE, 0, <<>>)
    /\ Wrote("GetOrPut", k, v, FALSE)
    /\ UNCHANGED thVars

GetAndDelete(k) ==
    /\ IF Exists(mp, k)
       THEN LET e == mp[k] IN
            /\ dll' = Remove(dll, e)
            /\ mp' = DeleteKey(mp, k)
            /\ Value' = [Value EXCEPT ![e] = nil]
            /\ last' = Call("GetAndDelete", k, 0, RemovedValue(e), TRUE, 0, <<>>)
       ELSE /\ last' = Call("GetAndDelete", k, 0, Absent[1], Absent[2], 0, <<>>)
            /\ UNCHANGED mapVars
    /\ Wrote("GetAndDelete", k, 0, last'.ok)
    /\ UNCHANGED thVars

Next ==
    \/ \E k \in Keys : Get(k)
    \/ \E k \in Keys, v \in Vals : Put(k, v)
    \/ \E k \in Keys : Delete(k)
    \/ UnorderedRange
    \/ OrderedRange
    \/ LengthCall
    \/ \E k \in Keys, v \in Vals : GetOrPut(k, v)
    \/ \E k \in Keys : GetAndDelete(k)

Spec == Init /\ [][Next]_vars

----------------------------------------------------------------------------
\* Goroutines. Set(t, r) is th with goroutine t's call replaced by r.
Set(t, r) == [th EXCEPT ![t] = r]
At(t, pc, op) == th[t].pc = pc /\ th[t].op = op

\* The entries of the map, what a traversal that takes the read lock now is
\* to visit; kept by the goroutine from then on (history).
Ranges == {"UnorderedRange", "OrderedRange"}
Entries == {<<k, ValueOf(Value[mp[k]])>> : k \in DOMAIN mp}
Enter(r) == [r EXCEPT !.pc = "body", !.snap = IF r.op \in Ranges THEN Entries ELSE {}]

\* The method returns: to its caller, or into the callback that called it
\* and so to the traversal that called the callback.
Return(r) ==
    IF r.outer = NoFrame THEN Idle
    ELSE [Idle EXCEPT !.pc = "range", !.op = r.outer.op, !.cur = r.outer.cur,
                      !.todo = r.outer.todo, !.snap = r.outer.snap, !.out = r.outer.out]

\* A goroutine calls a method of the map.
Invoke(t, op) ==
    /\ th[t].pc = "idle"
    /\ th' = Set(t, [Idle EXCEPT !.pc = IF op \in ReadOps THEN "RLock" ELSE "Lock", !.op = op])
    /\ UNCHANGED <<mapVars, seqVars, logVars, mu>>

\* An RLock that lets the reader in whether or not a writer holds the lock.
RLockBarging(t) ==
    /\ th[t].pc = "RLock"
    /\ mu' = [mu EXCEPT !.readers = @ + 1]
    /\ th' = Set(t, Enter(th[t]))
    /\ UNCHANGED <<mapVars, seqVars, logVars>>

\* m.mu.RLock(): a reader enters unless a writer holds or awaits the lock.
RLock(t) ==
    /\ th[t].pc = "RLock"
    /\ IF mu.w = NoThread
       THEN /\ mu' = [mu EXCEPT !.readers = @ + 1]
            /\ th' = Set(t, Enter(th[t]))
       ELSE /\ mu' = [mu EXCEPT !.blocked = @ \cup {t}]
            /\ th' = Set(t, [th[t] EXCEPT !.pc = "RBlocked"])
    /\ UNCHANGED <<mapVars, seqVars, logVars>>

\* m.mu.Lock(), first half: the writer excludes other writers and new readers.
Lock(t) ==
    /\ th[t].pc = "Lock"
    /\ mu.w = NoThread
    /\ mu' = [mu EXCEPT !.w = t]
    /\ th' = Set(t, [th[t] EXCEPT !.pc = "LockWait"])
    /\ UNCHANGED <<mapVars, seqVars, logVars>>

\* A Lock that does not wait for the readers that are inside.
LockAcquireEarly(t) ==
    /\ th[t].pc = "LockWait"
    /\ mu.w = t
    /\ mu' = [mu EXCEPT !.held = TRUE]
    /\ th' = Set(t, [th[t] EXCEPT !.pc = "body"])
    /\ UNCHANGED <<mapVars, seqVars, logVars>>

\* m.mu.Lock(), second half: the readers that were inside have left.
LockAcquire(t) ==
    /\ th[t].pc = "LockWait"
    /\ mu.w = t
    /\ mu.readers = 0
    /\ mu' = [mu EXCEPT !.held = TRUE]
    /\ th' = Set(t, [th[t] EXCEPT !.pc = "body"])
    /\ UNCHANGED <<mapVars, seqVars, logVars>>

\* A method that returns without m.mu.Unlock().
UnlockForgotten(t) ==
    /\ th[t].pc = "Unlock"
    /\ th' = Set(t, Return(th[t]))
    /\ UNCHANGED <<mapVars, seqVars, logVars, mu>>

\* defer m.mu.Unlock(): the method returns; the readers that waited enter.
Unlock(t) ==
    /\ th[t].pc = "Unlock"
    /\ mu' = [w |-> NoThread, held |-> FALSE,
              readers |-> mu.readers + Cardinality(mu.blocked), blocked |-> {}]
    /\ th' = [u \in Threads |->
                IF u = t THEN Return(th[t])
                ELSE IF u \in mu.blocked THEN Enter(th[u])
                ELSE th[u]]
    /\ UNCHANGED <<mapVars, seqVars, logVars>>

\* defer m.mu.RUnlock(): the method returns.
RUnlock(t) ==
    /\ th[t].pc = "RUnlock"
    /\ mu' = [mu EXCEPT !.readers = @ - 1]
    /\ th' = Set(t, Return(th[t]))
    /\ UNCHANGED <<mapVars, seqVars, logVars>>

\* Get, under the read lock.
GetStep(t, k) ==
    /\ At(t, "body", "Get")
    /\ th' = Set(t, [th[t] EXCEPT !.pc = "RUnlock", !.key = k,
                                  !.ret = GetResult(k)[1], !.ok = GetResult(k)[2]])
    /\ UNCHANGED <<mapVars, seqVars, logVars, mu>>

\* Length, under the read lock.
LengthStep(t) ==
    /\ At(t, "body", "Length")
    /\ th' = Set(t, [th[t] EXCEPT !.pc = "RUnlock", !.ret = IntOf(Length)])
    /\ UNCHANGED <<mapVars, seqVars, logVars, mu>>

\* OrderedRange: cur := m.dll.Back()
OrderedRangeBack(t) ==
    /\ At(t, "body", "OrderedRange")
    /\ th' = Set(t, [th[t] EXCEPT !.pc = "range", !.cur = Back(dll)])
    /\ UNCHANGED <<mapVars, seqVars, logVars, mu>>

\* OrderedRange: one turn of the loop, f(me.key, me.value); cur = cur.Prev()
OrderedRangeVisit(t) ==
    /\ At(t, "range", "OrderedRange")
    /\ IF th[t].cur = NoElement
       THEN th' = Set(t, [th[t] EXCEPT !.pc = "RUnlock"])
       ELSE th' = Set(t, [th[t] EXCEPT !.cur = Prev(dll, th[t].cur),
                                       !.out = Append(@, <<Value[th[t].cur].key,
                                                           ValueOf(Value[th[t].cur])>>)])
    /\ UNCHANGED <<mapVars, seqVars, logVars, mu>>

\* UnorderedRange: the range statement starts over the keys of m.mp
UnorderedRangeStart(t) ==
    /\ At(t, "body", "UnorderedRange")
    /\ th' = Set(t, [th[t] EXCEPT !.pc = "range", !.todo = DOMAIN mp])
    /\ UNCHANGED <<mapVars, seqVars, logVars, mu>>

\* UnorderedRange: one turn of the loop, on any key not yet visited
UnorderedRangeVisit(t) ==
    /\ At(t, "range", "UnorderedRange")
    /\ IF th[t].todo = {}
       THEN th' = Set(t, [th[t] EXCEPT !.pc = "RUnlock"])
       ELSE \E k \in th[t].todo :
               th' = Set(t, [th[t] EXCEPT !.todo = @ \ {k},
                                          !.out = Append(@, <<k, ValueOf(Value[mp[k]])>>)])
    /\ UNCHANGED <<mapVars, seqVars, logVars, mu>>

\* Put: the lookup, then m.dll.PushFront(...) or e.Value = ...
PutStep(t, k, v) ==
    /\ At(t, "body", "Put")
    /\ IF ~Exists(mp, k)
       THEN LET e == NewElement IN
            /\ dll' = PushFront(dll, e)
            /\ Value' = [Value EXCEPT ![e] = mapElement(k, v)]
            /\ th' = Set(t, [th[t] EXCEPT !.pc = "index", !.key = k, !.e = e])
       ELSE /\ Value' = Store(Value, mp[k], k, v)
            /\ th' = Set(t, [th[t] EXCEPT !.pc = "Unlock", !.key = k])
            /\ UNCHANGED dll
    /\ UNCHANGED <<mp, seqVars, mu>>
    /\ written' = [written EXCEPT ![k] = v]
    /\ firsts' = [firsts EXCEPT ![k] = IF Exists(mp, k) THEN @ ELSE @ + 1]

\* Put: m.mp[key] = the element pushed
PutIndex(t) ==
    /\ At(t, "index", "Put")
    /\ mp' = (th[t].key :> th[t].e) @@ mp
    /\ th' = Set(t, [th[t] EXCEPT !.pc = "Unlock"])
    /\ UNCHANGED <<dll, Value, seqVars, logVars, mu>>

\* Delete: the lookup, then return false or m.dll.Remove(e)
DeleteStep(t, k) ==
    /\ At(t, "body", "Delete")
    /\ IF ~Exists(mp, k)
       THEN /\ th' = Set(t, [th[t] EXCEPT !.pc = "Unlock", !.key = k, !.ok = FALSE])
            /\ UNCHANGED dll
       ELSE /\ dll' = Remove(dll, mp[k])
            /\ th' = Set(t, [th[t] EXCEPT !.pc = "index", !.key = k, !.e = mp[k]])
    /\ UNCHANGED <<mp, Value, seqVars, mu>>
    /\ written' = [written EXCEPT ![k] = IF Exists(mp, k) THEN 0 ELSE @]
    /\ firsts' = [firsts EXCEPT ![k] = IF Exists(mp, k) THEN 0 ELSE @]

\* Delete: delete(m.mp, key); return true
DeleteIndex(t) ==
    /\ At(t, "index", "Delete")
    /\ mp' = DeleteKey(mp, th[t].key)
    /\ Value' = [Value EXCEPT ![th[t].e] = nil]
    /\ th' = Set(t, [th[t] EXCEPT !.pc = "Unlock", !.e = NoElement, !.ok = TRUE])
    /\ UNCHANGED <<dll, seqVars, logVars, mu>>

\* GetOrPut: the lookup, then e.Value = ... or m.dll.PushFront(...)
GetOrPutStep(t, k, v) ==
    /\ At(t, "body", "GetOrPut")
    /\ IF Exists(mp, k)
       THEN /\ Value' = Store(Value, mp[k], k, v)
            /\ th' = Set(t, [th[t] EXCEPT !.pc = "Unlock", !.key = k,
                                          !.ret = GetOrPutValue(mp[k], v), !.ok = TRUE])
            /\ UNCHANGED dll
       ELSE LET e == NewElement IN
            /\ dll' = PushFront(dll, e)
            /\ Value' = [Value EXCEPT ![e] = mapElement(k, v)]
            /\ th' = Set(t, [th[t] EXCEPT !.pc = "index", !.key = k, !.e = e,
                                          !.ret = IntOf(v), !.ok = FALSE])
    /\ UNCHANGED <<mp, seqVars, mu>>
    /\ written' = [written EXCEPT ![k] = v]
    /\ firsts' = [firsts EXCEPT ![k] = IF Exists(mp, k) THEN @ ELSE @ + 1]

\* GetOrPut: m.mp[key] = the element pushed
GetOrPutIndex(t) ==
    /\ At(t, "index", "GetOrPut")
    /\ mp' = (th[t].key :> th[t].e) @@ mp
    /\ th' = Set(t, [th[t] EXCEPT !.pc = "Unlock"])
    /\ UNCHANGED <<dll, Value, seqVars, logVars, mu>>

\* GetAndDelete: the lookup, then m.dll.Remove(e) or return nil, false
GetAndDeleteStep(t, k) ==
    /\ At(t, "body", "GetAndDelete")
    /\ IF Exists(mp, k)
       THEN /\ dll' = Remove(dll, mp[k])
            /\ th' = Set(t, [th[t] EXCEPT !.pc = "index", !.key = k, !.e = mp[k]])
       ELSE /\ th' = Set(t, [th[t] EXCEPT !.pc = "Unlock", !.key = k,
                                          !.ret = Absent[1], !.ok = Absent[2]])
            /\ UNCHANGED dll
    /\ UNCHANGED <<mp, Value, seqVars, mu>>
    /\ written' = [written EXCEPT ![k] = IF Exists(mp, k) THEN 0 ELSE @]
    /\ firsts' = [firsts EXCEPT ![k] = IF Exists(mp, k) THEN 0 ELSE @]

\* GetAndDelete: delete(m.mp, key); return e.Value, true
GetAndDeleteIndex(t) ==
    /\ At(t, "index", "GetAndDelete")
    /\ mp' = DeleteKey(mp, th[t].key)
    /\ Value' = [Value EXCEPT ![th[t].e] = nil]
    /\ th' = Set(t, [th[t] EXCEPT !.pc = "Unlock", !.e = NoElement,
                                  !.ret = RemovedValue(th[t].e), !.ok = TRUE])
    /\ UNCHANGED <<dll, seqVars, logVars, mu>>

\* f(k, v), when f calls method op of the same map: the call starts with
\* the traversal, and its read lock, kept until the call returns.
CallbackCall(t, op) ==
    /\ th[t].pc = "range"
    /\ th[t].outer = NoFrame
    /\ \/ th[t].op = "OrderedRange" /\ th[t].cur # NoElement
       \/ th[t].op = "UnorderedRange" /\ th[t].todo # {}
    /\ th' = Set(t, [Idle EXCEPT !.pc = IF op \in ReadOps THEN "RLock" ELSE "Lock",
                                 !.op = op,
                                 !.outer = [op |-> th[t].op, cur |-> th[t].cur,
                                            todo |-> th[t].todo, snap |-> th[t].snap,
                                            out |-> th[t].out]])
    /\ UNCHANGED <<mapVars, seqVars, logVars, mu>>

\* One step of goroutine t inside the method it called.
Run(t) ==
        \/ RLock(t)
        \/ Lock(t)
        \/ LockAcquire(t)
        \/ Unlock(t)
        \/ RUnlock(t)
        \/ \E k \in ThreadKeys : GetStep(t, k)
        \/ LengthStep(t)
        \/ OrderedRangeBack(t)
        \/ OrderedRangeVisit(t)
        \/ UnorderedRangeStart(t)
        \/ UnorderedRangeVisit(t)
        \/ \E k \in ThreadKeys, v \in ThreadVals : PutStep(t, k, v)
        \/ PutIndex(t)
        \/ \E k \in ThreadKeys : DeleteStep(t, k)
        \/ DeleteIndex(t)
        \/ \E k \in ThreadKeys, v \in ThreadVals : GetOrPutStep(t, k, v)
        \/ GetOrPutIndex(t)
        \/ \E k \in ThreadKeys : GetAndDeleteStep(t, k)
        \/ GetAndDeleteIndex(t)

NextThreads ==
    \E t \in Threads :
        \/ \E op \in ReadOps \cup WriteOps : Invoke(t, op)
        \/ Run(t)

SpecThreads == Init /\ [][NextThreads]_vars

\* The goroutines under the Go scheduler and sync.RWMutex: a goroutine that
\* can run does run, and a writer that waits in Lock() for other writers is
\* handed the lock when its turn comes (a sync.Mutex does not starve a
\* waiter). No goroutine is bound to call the map again.
Fairness == \A t \in Threads : WF_vars(Run(t)) /\ SF_vars(Lock(t))

SpecFair == Init /\ [][NextThreads]_vars /\ Fairness

\* Goroutines whose callbacks may call the methods of the map.
NextReentrant ==
    \/ NextThreads
    \/ \E t \in Threads, op \in ReadOps \cup WriteOps : CallbackCall(t, op)

SpecReentrant == Init /\ [][NextReentrant]_vars

\* Goroutines that interleave Put, Delete and Get, each on a key of its own.
OwnKey(t) == KeyNames[t]

NextDisjoint ==
    \E t \in Threads :
        \/ \E op \in {"Put", "Delete", "Get"} : Invoke(t, op)
        \/ RLock(t)
        \/ Lock(t)
        \/ LockAcquire(t)
        \/ Unlock(t)
        \/ RUnlock(t)
        \/ GetStep(t, OwnKey(t))
        \/ \E v \in ThreadVals : PutStep(t, OwnKey(t), v)
        \/ PutIndex(t)
        \/ DeleteStep(t, OwnKey(t))
        \/ DeleteIndex(t)

SpecDisjoint == Init /\ [][NextDisjoint]_vars

----------------------------------------------------------------------------
\* Properties.

Reverse(q) == [i \in 1..Len(q) |-> q[Len(q) + 1 - i]]
VisitKeys(q) == [i \in 1..Len(q) |-> q[i][1]]
Elems(q) == {q[i] : i \in 1..Len(q)}
Pairs == {<<k, GetResult(k)[1]>> : k \in DOMAIN mp}
Overwritten(q, k, v) == [i \in 1..Len(q) |-> IF q[i][1] = k THEN <<k, v>> ELSE q[i]]

\* C1 as stated: after Put calls with pairwise distinct keys on the empty
\* map, OrderedRange visits the keys in reverse insertion order, the last
\* key Put first.
C1_ReverseInsertionOrder ==
    (last.op = "OrderedRange" /\ onlyPuts) => VisitKeys(last.visited) = Reverse(puts)

\* C1 amended: after Put calls with pairwise distinct keys on the empty map,
\* OrderedRange visits every key once, in insertion order: the first key Put
\* is visited first and the last key Put is visited last.
C1_InsertionOrder ==
    (last.op = "OrderedRange" /\ onlyPuts) => VisitKeys(last.visited) = puts

C1_Witness ==
    last.op = "OrderedRange" /\ onlyPuts /\ Len(puts) = MaxKeys /\ Len(last.visited) = MaxKeys

\* C2: GetAndDelete(k) on a present key returns (v, true) with v the value
\* Get(k) would return, after it Get(k) returns not-found and Length() is one
\* less; a GetAndDelete(k) right after it returns (nil, false) and changes
\* nothing.
C2_GetAndDeleteReturnsStored ==
    [][last'.op = "GetAndDelete" =>
         LET k == last'.key IN
         /\ k \in DOMAIN mp =>
               /\ last'.ret = GetResult(k)[1]
               /\ last'.ok = TRUE
               /\ GetIn(mp', Value', k) = <<nil, FALSE>>
               /\ Length' = Length - 1
         /\ (last.op = "GetAndDelete" /\ last.key = k /\ last.ok) =>
               /\ last'.ret = nil
               /\ last'.ok = FALSE
               /\ UNCHANGED mapVars]_vars

\* C3: whenever no writer holds the lock, the index and the list are in
\* bijection: every key of the index maps to an element that is in the list
\* exactly once, every element of the list is the image of exactly one key,
\* and the key stored in the element is the key that maps to it.
C3_Bijection ==
    ~mu.held =>
        /\ \A k \in DOMAIN mp : Cardinality({i \in 1..Len(dll) : dll[i] = mp[k]}) = 1
        /\ \A i \in 1..Len(dll) : Cardinality({k \in DOMAIN mp : mp[k] = dll[i]}) = 1
        /\ \A k \in DOMAIN mp : Value[mp[k]].type = "mapElement" /\ Value[mp[k]].key = k

C3_Witness ==
    /\ ~mu.held
    /\ Len(dll) = 2
    /\ mu.readers > 0
    /\ \E t \in Threads : th[t].pc = "Lock"

\* C4: a Get(k) that follows Put(k, v) with no write call on k in between
\* returns (v, true); Get(k) on a key never inserted returns (nil, false).
C4_GetAfterPut ==
    last.op = "Get" =>
        /\ lastPut[last.key] # 0 => (last.ret = IntOf(lastPut[last.key]) /\ last.ok)
        /\ ~inserted[last.key] => (last.ret = nil /\ ~last.ok)

C4_Witness ==
    /\ last.op = "Get" /\ last.key = "a" /\ lastPut["a"] = 2 /\ last.ok
    /\ ~inserted["b"]

C6_GetOrPutReturnsExisting ==
    [][(last'.op = "GetOrPut" /\ last'.key \in DOMAIN mp) =>
         last'.ret = GetResult(last'.key)[1]]_vars

\* C7 as stated: Delete(k) returns true exactly when k was inserted after
\* the last Delete(k) that returned true; after a Delete that returned true
\* Get(k) returns not-found and Length() is one less.
C7_DeleteOncePerInsertion ==
    [][last'.op = "Delete" =>
         LET k == last'.key IN
         /\ last'.ok = undeleted[k]
         /\ last'.ok => (GetIn(mp', Value', k) = <<nil, FALSE>> /\ Length' = Length - 1)]_vars

\* C7 amended: Delete(k) returns true exactly when k was inserted after the
\* last Delete(k) or GetAndDelete(k) that returned true; after a Delete that
\* returned true Get(k) returns not-found and Length() is one less.
C7_DeleteOncePerUnremovedInsertion ==
    [][last'.op = "Delete" =>
         LET k == last'.key IN
         /\ last'.ok = unremoved[k]
         /\ last'.ok => (GetIn(mp', Value', k) = <<nil, FALSE>> /\ Length' = Length - 1)]_vars

C7_Witness ==
    /\ last.op = "Delete" /\ last.ok /\ inserted[last.key]
    /\ ~unremoved[last.key] /\ Length = 1

\* C8: Put(k, v2) or GetOrPut(k, v2) on a present key leaves the order in
\* which OrderedRange visits the keys and Length() as they were; the entry
\* of k gets the value v2 and no other entry changes.
C8_OverwriteKeepsPosition ==
    [][(last'.op \in {"Put", "GetOrPut"} /\ last'.key \in DOMAIN mp) =>
         /\ Length' = Length
         /\ OrderedIn(dll', Value') = Overwritten(OrderedVisits, last'.key, IntOf(last'.val))]_vars

C8_Witness ==
    /\ last.op = "Put" /\ last.key = "b" /\ lastPut["b"] = 3
    /\ ~onlyPuts
    /\ OrderedVisits = << <<"b", IntOf(3)>>, <<"a", IntOf(1)>> >>

\* C9: from the empty map, after Put("a",1); Put("b",2); Put("a",3) Length()
\* is 2 and OrderedRange visits ("a",3) then ("b",2); a following
\* GetAndDelete("b") returns (2, true) and leaves Length() at 1.
C9_Example ==
    /\ (example = 3 /\ last.op = "Length") => last.n = 2
    /\ (example = 3 /\ last.op = "OrderedRange") =>
          last.visited = << <<"a", IntOf(3)>>, <<"b", IntOf(2)>> >>
    /\ (example = 4 /\ last.op = "GetAndDelete") => (last.ret = IntOf(2) /\ last.ok)
    /\ (example = 4 /\ last.op = "Length") => last.n = 1

\* C10: UnorderedRange and OrderedRange visit the same set of (key, value)
\* pairs, every present key once, the pairs (k, Get(k)) of the present keys,
\* in as many callback calls as Length() returns.
C10_RangesAgree ==
    last.op \in {"UnorderedRange", "OrderedRange"} =>
        /\ Elems(last.visited) = Pairs
        /\ Elems(last.visited) = Elems(OrderedVisits)
        /\ \A p \in Orders(DOMAIN mp) : Elems(last.visited) = Elems(UnorderedVisits(p))
        /\ Len(last.visited) = Length
        /\ \A i, j \in 1..Len(last.visited) :
              last.visited[i][1] = last.visited[j][1] => i = j
        /\ {last.visited[i][1] : i \in 1..Len(last.visited)} = DOMAIN mp

C10_Witness ==
    /\ last.op = "UnorderedRange"
    /\ Len(last.visited) = MaxKeys
    /\ last.visited # OrderedVisits
    /\ ~onlyPuts

\* C16: the list holds the present keys by their latest insertion while
\* absent, the newest at the front: a key removed and inserted again is at
\* the front, an overwrite moves no key.
C16_OrderByFreshInsertion ==
    [i \in 1..Len(dll) |-> Value[dll[i]].key] = fresh

C16_Witness ==
    /\ Len(fresh) = MaxKeys
    /\ ~onlyPuts
    /\ last.op \in {"Put", "GetOrPut"}
    /\ fresh[1] # last.key
    /\ undeleted[fresh[1]] /\ \E k \in Keys : inserted[k] /\ lastPut[k] = 0

\* C18: Delete(k) and GetAndDelete(k) on an absent key return false
\* (GetAndDelete with nil) and leave index, list, values and Length()
\* as they were.
C18_AbsentKeyNoMutation ==
    [][(last'.op \in {"Delete", "GetAndDelete"} /\ last'.key \notin DOMAIN mp) =>
         /\ last'.ok = FALSE
         /\ last'.ret = nil
         /\ UNCHANGED mapVars
         /\ Len(dll') = Length]_vars

C18_Witness ==
    /\ last.op = "GetAndDelete" /\ ~last.ok /\ last.ret = nil
    /\ last.key \notin DOMAIN mp /\ Length = 1

\* C19: Get, Length, UnorderedRange and OrderedRange leave the index, the
\* order of the list and every stored value unchanged.
C19_ReadsChangeNothing ==
    [][last'.op \in ReadOps => UNCHANGED mapVars]_vars

C19_Witness ==
    /\ last.op = "Get" /\ last.ok /\ last.key = "a"
    /\ Len(dll) = 2 /\ Value[dll[1]].key = "b"

\* Goroutine t is inside a critical section: it holds the lock, as the
\* method it is in or as the traversal whose callback it is in.
Inside(t) ==
    \/ th[t].pc \in {"body", "index", "range", "Unlock", "RUnlock"}
    \/ th[t].outer # NoFrame

\* C11: while a goroutine is inside the critical section of Put, Delete,
\* GetOrPut or GetAndDelete, no other goroutine is inside the critical section
\* of any method; goroutines in Get, Length, UnorderedRange and OrderedRange
\* can be inside together (C11_Witness).
C11_WritersExclude ==
    \A t \in Threads :
        (Inside(t) /\ th[t].op \in WriteOps /\ th[t].outer = NoFrame) =>
            \A u \in Threads \ {t} : ~Inside(u)

C11_Witness ==
    /\ \A t \in Threads : Inside(t) /\ th[t].op \in ReadOps
    /\ mu.readers = MaxThreads
    /\ \E t, u \in Threads : th[t].pc = "range" /\ th[u].pc = "RUnlock" /\ th[u].op = "Get"

C17_TraversalSnapshot ==
    \A t \in Threads :
        (th[t].op \in Ranges /\ th[t].pc \in {"body", "range", "RUnlock"}) =>
            /\ th[t].snap = Entries
            /\ Elems(th[t].out) \subseteq th[t].snap
            /\ Cardinality(Elems(VisitKeys(th[t].out))) = Len(th[t].out)
            /\ th[t].pc = "RUnlock" => Elems(th[t].out) = th[t].snap

C17_Witness ==
    \E t, u \in Threads :
        /\ At(t, "RUnlock", "UnorderedRange")
        /\ Len(th[t].out) = 2 /\ th[t].out[1][1] = "b"
        /\ At(u, "LockWait", "Put")

\* C12: goroutines that Put, Delete and Get keys of their own lose no
\* update. A Get returns what the goroutine last wrote; once every call has
\* returned, Length() is the number of keys whose last write was a Put, and
\* Get(k) is the value of that Put and true for each of them.
C12_NoLostUpdate ==
    /\ \A t \in Threads :
          At(t, "RUnlock", "Get") =>
              <<th[t].ret, th[t].ok>> =
                  IF written[OwnKey(t)] # 0 THEN <<IntOf(written[OwnKey(t)]), TRUE>>
                  ELSE <<nil, FALSE>>
    /\ (\A t \in Threads : th[t].pc = "idle") =>
          /\ Length = Cardinality({k \in Keys : written[k] # 0})
          /\ \A k \in Keys :
                GetResult(k) = IF written[k] # 0 THEN <<IntOf(written[k]), TRUE>>
                               ELSE <<nil, FALSE>>

C12_Witness ==
    /\ \A t \in Threads : th[t].pc = "idle"
    /\ written[OwnKey(1)] = 0 /\ written[OwnKey(2)] = 2
    /\ mp = (OwnKey(2) :> 2)
    /\ Length = 1

\* C13: a write method called from the callback of a traversal never has
\* the lock, and neither it nor the traversal ever returns: the goroutine
\* stays in m.mu.Lock() for good.
C13_WriteFromCallbackBlocks ==
    /\ [](\A t \in Threads :
            (th[t].outer # NoFrame /\ th[t].op \in WriteOps) =>
                th[t].pc \in {"Lock", "LockWait"})
    /\ [][\A t \in Threads :
            (th[t].outer # NoFrame /\ th[t].op \in WriteOps) =>
                (th'[t].outer = th[t].outer /\ th'[t].op = th[t].op)]_vars

C13_Witness ==
    \E t, u \in Threads :
        /\ th[t].outer.op = "UnorderedRange" /\ At(t, "LockWait", "GetAndDelete")
        /\ mu.w = t /\ mu.readers = 1
        /\ th[u].pc = "RBlocked"

\* C14: a method of the map called from the callback of a traversal never
\* returns, whichever method it is, Get, Length, UnorderedRange and
\* OrderedRange too, and whatever the other goroutines do.
C14_AnyCallFromCallbackBlocks ==
    [][\A t \in Threads : th[t].outer # NoFrame => th'[t].outer # NoFrame]_vars

\* C20: with callbacks that return and call no method of the map, under
\* fair scheduling every call of every goroutine gets the lock, completes
\* and returns; whenever a call is in progress some call can take a step
\* (no deadlock), and the lock is free whenever no call is in progress.
C20_EveryCallReturns ==
    /\ \A t \in Threads : (th[t].pc # "idle") ~> (th[t].pc = "idle")
    /\ []((\E t \in Threads : th[t].pc # "idle") => \E t \in Threads : ENABLED Run(t))
    /\ []((\A t \in Threads : th[t].pc = "idle") =>
             mu = [w |-> NoThread, held |-> FALSE, readers |-> 0, blocked |-> {}])

C20_Witness ==
    \E t, u \in Threads :
        /\ At(t, "index", "GetOrPut")
        /\ th[u].pc = "RBlocked" /\ th[u].op = "OrderedRange"
        /\ mu.blocked = {u} /\ Len(dll) = 2

====
